---- MODULE Spec2Model ----
(***************************************************************************)
(* A model of git-data.js (the version of the script at lines 180-453):    *)
(* the pipeline main() runs over a local repository, and the pure          *)
(* functions it is built from.                                             *)
(*                                                                         *)
(* Text is modelled as a non-empty sequence of lines (the string split at  *)
(* "\n"); the empty string is the single empty line.  A line is a sequence *)
(* of characters or, where the code only looks at whole fields, of fields. *)
(***************************************************************************)
EXTENDS Integers, Sequences, FiniteSets, TLC

(* ------------------------------ bounds -------------------------------- *)

\* longest history of the repository
NumCommits == 2
\* most queries the environment makes fail in one run
MaxFail == 1
\* largest new-file start line of a hunk of a repository change
MaxLine == 3
\* most lines a hunk of a repository change adds
MaxAdd == 3
\* most lines of an arbitrary diff text handed to parseDiff
MaxDiffLen == 4
\* most hunks of a zero-context diff handed to parseDiff
MaxHunks == 2

(* ------------------------- strings and text --------------------------- *)

EmptyLine == << >>

\* the empty string ''
EmptyText == << EmptyLine >>

Range(s) == { s[i] : i \in DOMAIN s }

RECURSIVE Sum(_)
Sum(s) == IF s = << >> THEN 0 ELSE Head(s) + Sum(Tail(s))

\* String.prototype.startsWith
startsWith(line, prefix) ==
    /\ Len(line) >= Len(prefix)
    /\ \A i \in 1..Len(prefix) : line[i] = prefix[i]

\* String.prototype.includes
includes(s, t) ==
    \E i \in 0..(Len(s) - Len(t)) : \A j \in 1..Len(t) : s[i + j] = t[j]

ToLowerChar(c) ==
    CASE c = "J" -> "j"
      [] c = "D" -> "d"
      [] c = "M" -> "m"
      [] c = "B" -> "b"
      [] OTHER -> c

\* String.prototype.toLowerCase
toLowerCase(s) == [i \in DOMAIN s |-> ToLowerChar(s[i])]

\* String.prototype.split(sep) for a one-character separator: "".split(sep) is [""]
RECURSIVE split(_, _)
split(s, sep) ==
    IF \A i \in DOMAIN s : s[i] # sep THEN << s >>
    ELSE LET k == CHOOSE i \in DOMAIN s :
                      s[i] = sep /\ \A j \in 1..(i - 1) : s[j] # sep
         IN  << SubSeq(s, 1, k - 1) >> \o split(SubSeq(s, k + 1, Len(s)), sep)

\* Array.prototype.join(sep)
RECURSIVE join(_, _)
join(parts, sep) ==
    IF parts = << >> THEN << >>
    ELSE IF Len(parts) = 1 THEN parts[1]
    ELSE parts[1] \o << sep >> \o join(Tail(parts), sep)

IsBlank(line) == \A i \in DOMAIN line : line[i] = " "

\* String.prototype.trim on a text: the blank lines at both ends go
RECURSIVE TrimLeft(_)
TrimLeft(text) ==
    IF text = << >> THEN << >>
    ELSE IF IsBlank(Head(text)) THEN TrimLeft(Tail(text)) ELSE text

RECURSIVE TrimRight(_)
TrimRight(text) ==
    IF text = << >> THEN << >>
    ELSE IF IsBlank(text[Len(text)]) THEN TrimRight(SubSeq(text, 1, Len(text) - 1))
    ELSE text

trim(text) ==
    LET t == TrimRight(TrimLeft(text)) IN IF t = << >> THEN EmptyText ELSE t

\* text.split('\n')
splitLines(text) == text

\* the truth value of a string: '' is falsy
Truthy(text) == text # EmptyText

Digits == << "0", "1", "2", "3", "4", "5", "6", "7", "8", "9" >>

DigitVal(c) == (CHOOSE i \in DOMAIN Digits : Digits[i] = c) - 1

\* /^\d+$/.test(val)
IsDigits(val) == val # << >> /\ \A i \in DOMAIN val : val[i] \in Range(Digits)

\* parseInt(val, 10) of a string of digits
RECURSIVE parseInt(_)
parseInt(val) ==
    IF val = << >> THEN 0
    ELSE 10 * parseInt(SubSeq(val, 1, Len(val) - 1)) + DigitVal(val[Len(val)])

\* the decimal numeral git prints for a count
RECURSIVE Numeral(_)
Numeral(n) ==
    IF n < 10 THEN << Digits[n + 1] >>
    ELSE Numeral(n \div 10) \o << Digits[(n % 10) + 1] >>

(* ---------------------------- parseDiff ------------------------------- *)

\* The rest of a hunk header after its leading "@@" is one character here:
\* "hdr:<c>" stands for " -a[,b] +c[,d] @@", the text the pattern of
\* parseDiff matches, and HunkStart is the pattern's first capture group.
HunkStarts == { 1, 2, 3, 4, 5 }

HdrChar(c) ==
    CASE c = 1 -> "hdr:1" [] c = 2 -> "hdr:2" [] c = 3 -> "hdr:3"
      [] c = 4 -> "hdr:4" [] c = 5 -> "hdr:5"

HdrChars == { HdrChar(c) : c \in HunkStarts }

HunkStart(ch) == Numeral(CHOOSE c \in HunkStarts : HdrChar(c) = ch)

\* line.match(/@@ -[0-9]+(?:,[0-9]+)? \+([0-9]+)(?:,([0-9]+))? @@/):
\* the first capture group, or << >> when the line does not match
HunkMatch(line) ==
    IF \E i \in 1..(Len(line) - 2) :
           line[i] = "@" /\ line[i + 1] = "@" /\ line[i + 2] \in HdrChars
    THEN LET k == CHOOSE i \in 1..(Len(line) - 2) :
                      /\ line[i] = "@" /\ line[i + 1] = "@" /\ line[i + 2] \in HdrChars
                      /\ \A j \in 1..(i - 1) :
                             ~(line[j] = "@" /\ line[j + 1] = "@" /\ line[j + 2] \in HdrChars)
         IN  << HunkStart(line[k + 2]) >>
    ELSE << >>

\* the lines a diff is made of
HunkHeader(c) == << "@", "@", HdrChar(c) >>
BadHeader     == << "@", "@", "x" >>
AddLine       == << "+", "x" >>
PlusFileLine  == << "+", "+", "+", "x" >>
DelLine       == << "-", "x" >>
CtxLine       == << " ", "x" >>
NoNewlineLine == << "\\", "x" >>
MetaLine      == << "d", "x" >>
MinusFileLine == << "-", "-", "-", "x" >>

\* ParseLine without the test for the "+++" file header
ParseLineNoFileHeader(st, line) ==
    IF startsWith(line, << "@", "@" >>)
    THEN IF HunkMatch(line) # << >>
         THEN [st EXCEPT !.startLine = parseInt(HunkMatch(line)[1])]
         ELSE st
    ELSE IF startsWith(line, << "+" >>)
    THEN [startLine |-> st.startLine + 1,
          lineNumbers |-> Append(st.lineNumbers, st.startLine)]
    ELSE IF ~startsWith(line, << "\\" >>)
    THEN [st EXCEPT !.startLine = st.startLine + 1]
    ELSE st

\* one turn of the forEach of parseDiff on the state [startLine, lineNumbers]
ParseLine(st, line) ==
    IF startsWith(line, << "@", "@" >>)
    THEN IF HunkMatch(line) # << >>
         THEN [st EXCEPT !.startLine = parseInt(HunkMatch(line)[1])]
         ELSE st
    ELSE IF startsWith(line, << "+" >>) /\ ~startsWith(line, << "+", "+", "+" >>)
    THEN [startLine |-> st.startLine + 1,
          lineNumbers |-> Append(st.lineNumbers, st.startLine)]
    ELSE IF ~startsWith(line, << "\\" >>)
    THEN [st EXCEPT !.startLine = st.startLine + 1]
    ELSE st

RECURSIVE ParseLines(_, _)
ParseLines(st, lines) ==
    IF lines = << >> THEN st ELSE ParseLines(ParseLine(st, Head(lines)), Tail(lines))

ParseStart == [startLine |-> 0, lineNumbers |-> << >>]

parseDiff(diffOutput) == ParseLines(ParseStart, splitLines(diffOutput)).lineNumbers

(* ------------------- the repository and the git tool ------------------ *)

\* A path is the sequence of the dot-separated parts of its name.
TestA  == << "a", "test", "js" >>
TestB  == << "src/b", "spec", "js" >>
Readme == << "README", "md" >>
Logo   == << "logo", "png" >>

\* A change of one file in one commit: binary, or the hunks of its
\* zero-context diff, each [c, dels, adds] for "@@ -a,dels +c,adds @@".
Hunk(c, dels, adds) == [c |-> c, dels |-> dels, adds |-> adds]
TextChange(hunks) == [binary |-> FALSE, hunks |-> hunks]
BinaryChange == [binary |-> TRUE, hunks |-> << >>]

Repeat(line, n) == [i \in 1..n |-> line]

HunkText(h) == << HunkHeader(h.c) >> \o Repeat(DelLine, h.dels) \o Repeat(AddLine, h.adds)

RECURSIVE HunksText(_)
HunksText(hunks) ==
    IF hunks = << >> THEN << >> ELSE HunkText(Head(hunks)) \o HunksText(Tail(hunks))

\* what `git diff -U0` prints for a change, its final newline included
GitDiffU0(change) ==
    IF change.binary
    THEN << MetaLine, MetaLine, MetaLine, EmptyLine >>
    ELSE << MetaLine, MetaLine, MinusFileLine, PlusFileLine >>
             \o HunksText(change.hunks) \o << EmptyLine >>

\* the lines a change adds, as `git show --numstat` counts them
RECURSIVE AddedCount(_)
AddedCount(hunks) ==
    IF hunks = << >> THEN 0 ELSE Head(hunks).adds + AddedCount(Tail(hunks))

RECURSIVE DeletedCount(_)
DeletedCount(hunks) ==
    IF hunks = << >> THEN 0 ELSE Head(hunks).dels + DeletedCount(Tail(hunks))

\* A numstat line is the sequence of its tab-separated fields.
NumstatLine(fc) ==
    IF fc.change.binary
    THEN << << "-" >>, << "-" >>, << "p" >> >>
    ELSE << Numeral(AddedCount(fc.change.hunks)),
            Numeral(DeletedCount(fc.change.hunks)), << "p" >> >>

HashChar(i) ==
    CASE i = 1 -> "h1" [] i = 2 -> "h2" [] i = 3 -> "h3" [] i = 4 -> "h4"

\* the commit identifier, a string, of the i-th commit of the history
HashOf(i) == << HashChar(i) >>

\* A history is the sequence of the commits, the oldest (the root) first;
\* a commit is [author, inWindow, changes], changes a sequence of
\* [file, change] over distinct files.
IndexOf(hist, commit) ==
    IF \E i \in DOMAIN hist : HashOf(i) = commit
    THEN CHOOSE i \in DOMAIN hist : HashOf(i) = commit
    ELSE 0

\* the indices of a history, the newest first, as git log lists them
RECURSIVE NewestFirst(_)
NewestFirst(n) == IF n = 0 THEN << >> ELSE << n >> \o NewestFirst(n - 1)

RECURSIVE SelectSeqBy(_, _, _)
SelectSeqBy(s, hist, pattern) ==
    IF s = << >> THEN << >>
    ELSE IF hist[Head(s)].inWindow /\ includes(hist[Head(s)].author, pattern)
    THEN << Head(s) >> \o SelectSeqBy(Tail(s), hist, pattern)
    ELSE SelectSeqBy(Tail(s), hist, pattern)

\* git log --author=<pattern> --since --until --pretty=format:"%H" or "%H %an"
GitLog(hist, pattern, withName) ==
    LET sel == SelectSeqBy(NewestFirst(Len(hist)), hist, pattern)
        lines == [k \in DOMAIN sel |->
                     IF withName THEN HashOf(sel[k]) \o << " " >> \o hist[sel[k]].author
                     ELSE HashOf(sel[k])]
    IN  [ok |-> TRUE, out |-> IF lines = << >> THEN EmptyText ELSE lines]

\* git show --pretty="" --name-only <commit>
GitShowNameOnly(hist, commit) ==
    LET i == IndexOf(hist, commit) IN
    IF i = 0 THEN [ok |-> FALSE, out |-> EmptyText]
    ELSE [ok |-> TRUE,
          out |-> [k \in DOMAIN hist[i].changes |-> hist[i].changes[k].file]
                      \o << EmptyLine >>]

ChangeOf(c, file) ==
    IF \E k \in DOMAIN c.changes : c.changes[k].file = file
    THEN << c.changes[CHOOSE k \in DOMAIN c.changes : c.changes[k].file = file].change >>
    ELSE << >>

\* git diff -U0 <commit>^ <commit> -- "<file>": the root commit has no parent,
\* and git fails on the revision <commit>^
GitDiff(hist, commit, file) ==
    LET i == IndexOf(hist, commit) IN
    IF i <= 1 THEN [ok |-> FALSE, out |-> EmptyText]
    ELSE IF ChangeOf(hist[i], file) = << >> THEN [ok |-> TRUE, out |-> EmptyText]
    ELSE [ok |-> TRUE, out |-> GitDiffU0(ChangeOf(hist[i], file)[1])]

\* git show <commit> --numstat: the commit header, a blank line, a line per file
GitShowNumstat(hist, commit) ==
    LET i == IndexOf(hist, commit) IN
    IF i = 0 THEN [ok |-> FALSE, out |-> EmptyText]
    ELSE [ok |-> TRUE,
          out |-> << << << "c", "o", "m", "m", "i", "t" >> >>, EmptyLine >>
                      \o [k \in DOMAIN hist[i].changes |-> NumstatLine(hist[i].changes[k])]
                      \o << EmptyLine >>]

\* The queries of one run, each issued once: << kind, commit, file >>.
LogQuery(n) == << n, << >>, << >> >>
ShowQuery(commit) == << "show", commit, << >> >>
DiffQuery(commit, file) == << "diff", commit, file >>
NumstatQuery(commit) == << "numstat", commit, << >> >>

(* ------------------------ the program's functions --------------------- *)

\* runCommand without the catch: the output of a failed call is kept
runCommandKeepsOutput(res, envFails) ==
    IF Truthy(res.out) THEN trim(res.out) ELSE EmptyText

\* runCommand on a query whose execSync gives `res`; `envFails` says that the
\* environment makes this call fail
runCommand(res, envFails) ==
    IF res.ok /\ ~envFails THEN (IF Truthy(res.out) THEN trim(res.out) ELSE EmptyText)
    ELSE EmptyText

\* validateGitRepo without the exit
validateGitRepoNever(hasGitDir) == FALSE

\* validateGitRepo: TRUE when it ends the process with status 1
validateGitRepo(hasGitDir) == ~hasGitDir

\* main, lines 416-419: TRUE when the configuration is missing
ConfigMissing(repoPath, author) == repoPath = "" \/ author = << >>

\* Set.prototype.add on a Set kept in insertion order
SetAdd(s, x) == IF x \in Range(s) THEN s ELSE Append(s, x)

RECURSIVE AppendAll(_, _)
AppendAll(s, xs) == IF xs = << >> THEN s ELSE AppendAll(Append(s, Head(xs)), Tail(xs))

RECURSIVE SetAddAll(_, _)
SetAddAll(s, xs) == IF xs = << >> THEN s ELSE SetAddAll(SetAdd(s, Head(xs)), Tail(xs))

NotBlank(line) == ~IsBlank(line)

\* getCommits, methods 1 and 2: stdout.split('\n').filter(...).forEach(add)
AddHashes(allCommits, stdout) ==
    IF Truthy(stdout) THEN SetAddAll(allCommits, SelectSeq(splitLines(stdout), NotBlank))
    ELSE allCommits

nameParts(author) == split(author, " ")

reversedAuthor(author) ==
    LET np == nameParts(author) IN
    np[Len(np)] \o << ",", " " >> \o join(SubSeq(np, 1, Len(np) - 1), " ")

firstNameOnly(author) == split(author, " ")[1]

\* the test of method 3 with || for &&
HasEitherName(author, line) ==
    LET np == nameParts(author)
        authorName == join(Tail(split(line, " ")), " ")
    IN  \/ includes(toLowerCase(authorName), toLowerCase(np[1]))
        \/ includes(toLowerCase(authorName), toLowerCase(np[Len(np)]))

\* getCommits, method 3: the test of one line of "%H %an" output
HasBothNames(author, line) ==
    LET np == nameParts(author)
        authorName == join(Tail(split(line, " ")), " ")
    IN  /\ includes(toLowerCase(authorName), toLowerCase(np[1]))
        /\ includes(toLowerCase(authorName), toLowerCase(np[Len(np)]))

RECURSIVE AddPartial(_, _, _)
AddPartial(allCommits, author, lines) ==
    IF lines = << >> THEN allCommits
    ELSE AddPartial(
             IF HasBothNames(author, Head(lines))
             THEN SetAdd(allCommits, Head(split(Head(lines), " ")))
             ELSE allCommits,
             author, Tail(lines))

\* getCommits, lines 239-291; `F` is the set of queries the environment fails
getCommits(hist, author, F) ==
    LET stdout == runCommand(GitLog(hist, author, FALSE), LogQuery("log1") \in F)
        c1 == AddHashes(<< >>, stdout)
        c2 == IF Len(nameParts(author)) >= 2
              THEN AddHashes(c1, runCommand(GitLog(hist, reversedAuthor(author), FALSE),
                                            LogQuery("log2") \in F))
              ELSE c1
        partialOutput == runCommand(GitLog(hist, firstNameOnly(author), TRUE),
                                    LogQuery("log3") \in F)
    IN  IF Truthy(partialOutput)
        THEN AddPartial(c2, author, SelectSeq(splitLines(partialOutput), NotBlank))
        ELSE c2

\* the queries getCommits issues: three for the debugging output, then the methods
CommitQueries(author) ==
    { LogQuery("authors"), LogQuery("dateRange"), LogQuery("recent"),
      LogQuery("log1"), LogQuery("log3") }
      \cup (IF Len(nameParts(author)) >= 2 THEN { LogQuery("log2") } ELSE { })

\* getListOfFiles, lines 295-311
RECURSIVE getListOfFilesFrom(_, _, _, _)
getListOfFilesFrom(files, commits, hist, F) ==
    IF commits = << >> THEN files
    ELSE LET stdout == runCommand(GitShowNameOnly(hist, Head(commits)),
                                  ShowQuery(Head(commits)) \in F)
         IN  getListOfFilesFrom(
                 IF Truthy(stdout)
                 THEN SetAddAll(files, SelectSeq(splitLines(stdout), NotBlank))
                 ELSE files,
                 Tail(commits), hist, F)

getListOfFiles(commits, hist, F) == getListOfFilesFrom(<< >>, commits, hist, F)

\* minimatch(file, '**/*.<a>.<b>'): a name of at least one more part before .<a>.<b>
minimatch(file, pattern) ==
    /\ Len(file) >= Len(pattern) + 1
    /\ file[1] # ""
    /\ SubSeq(file, Len(file) - Len(pattern) + 1, Len(file)) = pattern

IsTestCaseFile(file) ==
    \/ minimatch(file, << "spec", "js" >>)
    \/ minimatch(file, << "test", "js" >>)
    \/ minimatch(file, << "test", "tsx" >>)
    \/ minimatch(file, << "test", "jsx" >>)
    \/ minimatch(file, << "test", "ts" >>)

\* getTestCaseFiles, lines 314-318
getTestCaseFiles(files) == SelectSeq(files, IsTestCaseFile)

\* getTestCasesUpdatedLineNumbersByFile, lines 341-351
RECURSIVE getTestCasesUpdatedLineNumbersByFile(_, _, _, _)
getTestCasesUpdatedLineNumbersByFile(file, commits, hist, F) ==
    IF commits = << >> THEN << >>
    ELSE LET diffOutput == runCommand(GitDiff(hist, Head(commits), file),
                                      DiffQuery(Head(commits), file) \in F)
         IN  (IF Truthy(diffOutput) THEN parseDiff(diffOutput) ELSE << >>)
                 \o getTestCasesUpdatedLineNumbersByFile(file, Tail(commits), hist, F)

\* A file on disk: missing, or its source: whether it parses, and the
\* CallExpression nodes of its syntax tree in traversal order, each
\* [type, object, name, start, end] (name: the identifier, or the property).
Missing == [exists |-> FALSE, parses |-> FALSE, calls |-> << >>]
Source(parses, calls) == [exists |-> TRUE, parses |-> parses, calls |-> calls]
Call(type, object, name, start, end) ==
    [type |-> type, object |-> object, name |-> name, start |-> start, end |-> end]

\* the test of the CallExpression visitor, lines 367-371
IsTestCall(callee) ==
    \/ callee.type = "Identifier" /\ (callee.name = "test" \/ callee.name = "it")
    \/ /\ callee.type = "MemberExpression"
       /\ (callee.object = "test" \/ callee.object = "it")
       /\ callee.name \in { "skip", "only" }

LineRange(call) == [start |-> call.start, end |-> call.end]

RECURSIVE MapLineRange(_)
MapLineRange(calls) ==
    IF calls = << >> THEN << >> ELSE << LineRange(Head(calls)) >> \o MapLineRange(Tail(calls))

\* getTestCasesLineNumbersByFile with the parser's throw caught
getTestCasesLineNumbersByFileLenient(content) ==
    IF ~content.exists \/ ~content.parses THEN [threw |-> FALSE, ranges |-> << >>]
    ELSE [threw |-> FALSE, ranges |-> MapLineRange(SelectSeq(content.calls, IsTestCall))]

\* getTestCasesLineNumbersByFile, lines 354-383: the ranges, or the parser's throw
getTestCasesLineNumbersByFile(content) ==
    IF ~content.exists THEN [threw |-> FALSE, ranges |-> << >>]
    ELSE IF ~content.parses THEN [threw |-> TRUE, ranges |-> << >>]
    ELSE [threw |-> FALSE, ranges |-> MapLineRange(SelectSeq(content.calls, IsTestCall))]

\* getUpdatedTestCases with < for <= at the end of the range
RECURSIVE getUpdatedTestCasesExclusive(_, _)
getUpdatedTestCasesExclusive(testCases, updateLines) ==
    IF testCases = << >> THEN << >>
    ELSE (IF \E k \in DOMAIN updateLines :
                 updateLines[k] >= Head(testCases).start /\ updateLines[k] < Head(testCases).end
          THEN << Head(testCases) >> ELSE << >>)
             \o getUpdatedTestCasesExclusive(Tail(testCases), updateLines)

\* getUpdatedTestCases, lines 386-390
RECURSIVE getUpdatedTestCases(_, _)
getUpdatedTestCases(testCases, updateLines) ==
    IF testCases = << >> THEN << >>
    ELSE (IF \E k \in DOMAIN updateLines :
                 updateLines[k] >= Head(testCases).start /\ updateLines[k] <= Head(testCases).end
          THEN << Head(testCases) >> ELSE << >>)
             \o getUpdatedTestCases(Tail(testCases), updateLines)

\* line.split('\t')[0] of a numstat line
FirstField(line) == IF line = << >> THEN << >> ELSE line[1]

RECURSIVE AddedLines(_)
AddedLines(lines) ==
    IF lines = << >> THEN 0
    ELSE (IF IsDigits(FirstField(Head(lines))) THEN parseInt(FirstField(Head(lines))) ELSE 0)
             + AddedLines(Tail(lines))

\* getTotalLinesByAuthor, lines 393-406
RECURSIVE getTotalLinesByAuthorFrom(_, _, _, _)
getTotalLinesByAuthorFrom(totalLines, commits, hist, F) ==
    IF commits = << >> THEN totalLines
    ELSE LET stdout == runCommand(GitShowNumstat(hist, Head(commits)),
                                  NumstatQuery(Head(commits)) \in F)
         IN  getTotalLinesByAuthorFrom(totalLines + AddedLines(splitLines(stdout)),
                                       Tail(commits), hist, F)

getTotalLinesByAuthor(commits, hist, F) == getTotalLinesByAuthorFrom(0, commits, hist, F)

(* ------------------------------ state --------------------------------- *)

VARIABLES
    REPO_PATH,          \* process.env.REPO_PATH, "" when it is not set
    AUTHOR,             \* process.env.AUTHOR, << >> when it is not set
    gitDir,             \* whether REPO_PATH/.git exists
    history,            \* the commits of the repository, the oldest first
    disk,               \* the test files of the working tree
    pc,                 \* the position of main
    commits,            \* main: commits
    files,              \* main: files
    testCaseFiles,      \* main: testCaseFiles
    fileIdx,            \* the turns the forEach of main has completed
    testCases,          \* testCases of every completed turn
    updatedLines,       \* updatedLines of every completed turn
    updatedTestCases,   \* main: updatedTestCases
    totalLines,         \* main: totalLines
    printed,            \* the results main has written to the console
    parsed,             \* the files handed to getTestCasesLineNumbersByFile
    issued,             \* the git queries issued
    failed,             \* the queries the environment made fail
    diffInput,          \* parseDiff: diffOutput
    diffHunks,          \* the hunks diffOutput was printed from, if it was
    linePos,            \* parseDiff: the lines the forEach has visited
    cursor,             \* parseDiff: [startLine, lineNumbers]
    diffResult,         \* parseDiff: the returned array
    dpc                 \* the position of parseDiff

envVars  == << REPO_PATH, AUTHOR, gitDir, history, disk >>
mainVars == << pc, commits, files, testCaseFiles, fileIdx, testCases, updatedLines,
               updatedTestCases, totalLines, printed, parsed, issued, failed >>
diffVars == << diffInput, diffHunks, linePos, cursor, diffResult, dpc >>
vars     == << envVars, mainVars, diffVars >>

(* ------------------------- the environments --------------------------- *)

JaneDoe == << "J", " ", "D" >>
Bob     == << "B" >>

FC(file, change) == [file |-> file, change |-> change]
Commit(author, inWindow, changes) ==
    [author |-> author, inWindow |-> inWindow, changes |-> changes]

NewTestA == << FC(TestA, TextChange(<< Hunk(1, 0, MaxAdd) >>)) >>

\* what one commit of the pipeline's repositories changes
ChangeSets ==
    { NewTestA }
      \cup { << FC(TestA, TextChange(<< Hunk(c, 1, 1) >>)) >> : c \in 1..MaxLine }
      \cup { << FC(TestA, TextChange(<< Hunk(c, 0, 1) >>)) >> : c \in { 1, MaxLine } }
      \cup { << FC(TestB, TextChange(<< Hunk(1, 0, 2) >>)),
                FC(Readme, TextChange(<< Hunk(1, 1, 2) >>)) >>,
             << FC(Logo, BinaryChange), FC(TestB, TextChange(<< Hunk(2, 1, 1) >>)) >> }

PipelineCommits ==
    { Commit(JaneDoe, TRUE, cs) : cs \in ChangeSets }
      \cup { Commit(Bob, TRUE, NewTestA), Commit(JaneDoe, FALSE, NewTestA) }

\* The root commit has no parent, so the run reads its file names and its
\* numstat only: the histories start with one of three root commits.
RootCommits ==
    { Commit(JaneDoe, TRUE, NewTestA),
      Commit(JaneDoe, TRUE, << FC(Readme, TextChange(<< Hunk(1, 0, MaxAdd) >>)) >>),
      Commit(Bob, TRUE, << FC(TestB, TextChange(<< Hunk(1, 0, 2) >>)) >>) }

SeqsUpTo(S, n) == UNION { [1..k -> S] : k \in 1..n }

PipelineHistories ==
    { h \in SeqsUpTo(PipelineCommits \cup RootCommits, NumCommits) :
          /\ h[1] \in RootCommits
          /\ \A i \in 2..Len(h) : h[i] \in PipelineCommits }

SourceA1 == Source(TRUE, << Call("Identifier", "", "test", 1, 3) >>)
SourceA2 == Source(TRUE, << Call("Identifier", "", "describe", 1, 4),
                            Call("MemberExpression", "it", "only", 2, 3),
                            Call("MemberExpression", "", "toBe", 3, 3),
                            Call("MemberExpression", "test", "each", 3, 4),
                            Call("Identifier", "", "test", 4, 4) >>)
SourceB  == Source(TRUE, << Call("Identifier", "", "it", 1, 2),
                            Call("MemberExpression", "test", "skip", 2, 2) >>)
Broken   == Source(FALSE, << >>)

DiskOf(a, b) == [f \in { TestA, TestB } |-> IF f = TestA THEN a ELSE b]

Disks ==
    { DiskOf(a, SourceB) : a \in { Missing, Broken, SourceA1, SourceA2 } }
      \cup { DiskOf(Broken, Missing), DiskOf(SourceA1, Broken) }

\* fs.existsSync / fs.readFileSync of a path of the working tree
DiskContent(file) == IF file \in DOMAIN disk THEN disk[file] ELSE Missing

\* the author names of the histories getCommits is checked on
HistoryAuthors ==
    { JaneDoe, << "D", ",", " ", "J" >>, << "J", " ", "X" >>, Bob,
      << "J", " ", "M", " ", "D" >>, << "D", ",", " ", "J", " ", "M" >> }

ConfiguredAuthors ==
    { JaneDoe, << "J", " ", "d" >>, << "J" >>, << "J", " ", "M", " ", "D" >> }

CommitHistories ==
    SeqsUpTo({ Commit(a, w, NewTestA) : a \in HistoryAuthors, w \in BOOLEAN }, NumCommits)

\* the texts parseDiff is checked on: any lines, and printed zero-context diffs
DiffLines ==
    { HunkHeader(1), HunkHeader(5), BadHeader, AddLine, PlusFileLine, CtxLine,
      NoNewlineLine, EmptyLine }

ArbitraryDiffs == SeqsUpTo(DiffLines, MaxDiffLen)

DiffHunks == { Hunk(c, dels, adds) : c \in 1..MaxLine, dels \in 0..1, adds \in 1..2 }

Ascending(hunks) == \A i \in 1..(Len(hunks) - 1) : hunks[i].c < hunks[i + 1].c

ZeroContextChanges == { hs \in SeqsUpTo(DiffHunks, MaxHunks) : Ascending(hs) }

(* ------------------------------ Init ---------------------------------- *)

MainIdle ==
    /\ commits = << >> /\ files = << >> /\ testCaseFiles = << >>
    /\ fileIdx = 0 /\ testCases = << >> /\ updatedLines = << >>
    /\ updatedTestCases = << >> /\ totalLines = 0 /\ printed = << >>
    /\ parsed = << >> /\ issued = { } /\ failed = { }

DiffIdle ==
    /\ diffInput = EmptyText /\ diffHunks = << >> /\ linePos = 0
    /\ cursor = ParseStart /\ diffResult = << >> /\ dpc = "idle"

\* main is about to run.  The configuration checks read nothing of the
\* repository, so the runs with a missing configuration start on the
\* one-commit histories only.
Init ==
    /\ REPO_PATH \in { "", "/repo" }
    /\ AUTHOR \in { << >>, JaneDoe }
    /\ gitDir \in BOOLEAN
    /\ history \in PipelineHistories
    /\ disk \in Disks
    /\ (REPO_PATH = "" \/ AUTHOR = << >> \/ ~gitDir)
           => (Len(history) = 1 /\ disk[TestA] = SourceA1 /\ disk[TestB] = SourceB)
    /\ pc = "main"
    /\ MainIdle
    /\ DiffIdle

\* getCommits is about to run on a valid configuration
InitCommits ==
    /\ REPO_PATH = "/repo"
    /\ AUTHOR \in ConfiguredAuthors
    /\ gitDir = TRUE
    /\ history \in CommitHistories
    /\ disk = [f \in { TestA, TestB } |-> Missing]
    /\ pc = "getCommits"
    /\ MainIdle
    /\ DiffIdle

\* parseDiff is about to run on a text
InitDiff ==
    /\ REPO_PATH = "/repo" /\ AUTHOR = JaneDoe /\ gitDir = TRUE
    /\ history = << Commit(JaneDoe, TRUE, NewTestA) >>
    /\ disk = [f \in { TestA, TestB } |-> Missing]
    /\ pc = "idle"
    /\ MainIdle
    /\ \/ diffHunks = << >> /\ diffInput \in ArbitraryDiffs
       \/ /\ diffHunks \in ZeroContextChanges
          /\ diffInput = trim(GitDiffU0(TextChange(diffHunks)))
    /\ linePos = 0 /\ cursor = ParseStart /\ diffResult = << >> /\ dpc = "forEach"

(* ----------------------------- actions -------------------------------- *)

\* the sets of queries the environment may make fail among Q
FailChoices(Q) == { F \in SUBSET Q : Cardinality(F) + Cardinality(failed) <= MaxFail }

\* main, lines 410-419
CheckConfig ==
    /\ pc = "main"
    /\ pc' = IF ConfigMissing(REPO_PATH, AUTHOR) THEN "exit1" ELSE "validateGitRepo"
    /\ UNCHANGED << envVars, diffVars, commits, files, testCaseFiles, fileIdx, testCases,
                    updatedLines, updatedTestCases, totalLines, printed, parsed, issued,
                    failed >>

\* main, line 421
ValidateGitRepo ==
    /\ pc = "validateGitRepo"
    /\ pc' = IF validateGitRepo(gitDir) THEN "exit1" ELSE "getCommits"
    /\ UNCHANGED << envVars, diffVars, commits, files, testCaseFiles, fileIdx, testCases,
                    updatedLines, updatedTestCases, totalLines, printed, parsed, issued,
                    failed >>

\* main without the test of line 424
NoCommitsNever(cs) == FALSE

\* main, line 424: commits.length === 0
NoCommits(cs) == Len(cs) = 0

\* main, lines 423-427
GetCommits ==
    /\ pc = "getCommits"
    /\ \E F \in FailChoices({ LogQuery("log1"), LogQuery("log2"), LogQuery("log3") }
                                \cap CommitQueries(AUTHOR)) :
           LET cs == getCommits(history, AUTHOR, F) IN
           /\ commits' = cs
           /\ issued' = issued \cup CommitQueries(AUTHOR)
           /\ failed' = failed \cup F
           /\ IF NoCommits(cs)
              THEN /\ printed' = Append(printed, << "No commits found" >>)
                   /\ pc' = "done"
              ELSE /\ printed' = printed
                   /\ pc' = "getListOfFiles"
    /\ UNCHANGED << envVars, diffVars, files, testCaseFiles, fileIdx, testCases,
                    updatedLines, updatedTestCases, totalLines, parsed >>

\* main, line 429
GetListOfFiles ==
    /\ pc = "getListOfFiles"
    /\ \E F \in FailChoices({ ShowQuery(c) : c \in Range(commits) }) :
           /\ files' = getListOfFiles(commits, history, F)
           /\ issued' = issued \cup { ShowQuery(c) : c \in Range(commits) }
           /\ failed' = failed \cup F
    /\ pc' = "getTestCaseFiles"
    /\ UNCHANGED << envVars, diffVars, commits, testCaseFiles, fileIdx, testCases,
                    updatedLines, updatedTestCases, totalLines, printed, parsed >>

\* main, lines 430-435
GetTestCaseFiles ==
    /\ pc = "getTestCaseFiles"
    /\ testCaseFiles' = getTestCaseFiles(files)
    /\ IF Len(getTestCaseFiles(files)) = 0
       THEN /\ printed' = Append(printed, << "No test case files found" >>)
            /\ pc' = "done"
       ELSE /\ printed' = printed
            /\ pc' = "forEach"
    /\ UNCHANGED << envVars, diffVars, commits, files, fileIdx, testCases, updatedLines,
                    updatedTestCases, totalLines, parsed, issued, failed >>

\* main, lines 438-446: one turn of the forEach over testCaseFiles
ProcessTestFile ==
    /\ pc = "forEach"
    /\ fileIdx < Len(testCaseFiles)
    /\ LET file == testCaseFiles[fileIdx + 1]
           r == getTestCasesLineNumbersByFile(DiskContent(file))
           Q == { DiffQuery(c, file) : c \in Range(commits) }
       IN  /\ parsed' = Append(parsed, file)
           /\ IF r.threw
              THEN /\ pc' = "threw"
                   /\ UNCHANGED << fileIdx, testCases, updatedLines, updatedTestCases,
                                   issued, failed >>
              ELSE \E F \in FailChoices(Q) :
                       LET lines == getTestCasesUpdatedLineNumbersByFile(
                                        file, commits, history, F)
                       IN  /\ testCases' = Append(testCases, r.ranges)
                           /\ updatedLines' = Append(updatedLines, lines)
                           /\ updatedTestCases' =
                                  AppendAll(updatedTestCases,
                                            getUpdatedTestCases(r.ranges, lines))
                           /\ fileIdx' = fileIdx + 1
                           /\ issued' = issued \cup Q
                           /\ failed' = failed \cup F
                           /\ pc' = "forEach"
    /\ UNCHANGED << envVars, diffVars, commits, files, testCaseFiles, totalLines, printed >>

\* main, lines 448-450
Report ==
    /\ pc = "forEach"
    /\ fileIdx = Len(testCaseFiles)
    /\ \E F \in FailChoices({ NumstatQuery(c) : c \in Range(commits) }) :
           /\ totalLines' = getTotalLinesByAuthor(commits, history, F)
           /\ printed' = printed \o
                  << << "Total lines added", getTotalLinesByAuthor(commits, history, F) >>,
                     << "Updated/Added Test Cases", Len(updatedTestCases) >> >>
           /\ issued' = issued \cup { NumstatQuery(c) : c \in Range(commits) }
           /\ failed' = failed \cup F
    /\ pc' = "done"
    /\ UNCHANGED << envVars, diffVars, commits, files, testCaseFiles, fileIdx, testCases,
                    updatedLines, updatedTestCases, parsed >>

\* parseDiff, lines 326-335: one turn of the forEach over the lines
ParseDiffLine ==
    /\ dpc = "forEach"
    /\ linePos < Len(splitLines(diffInput))
    /\ cursor' = ParseLine(cursor, splitLines(diffInput)[linePos + 1])
    /\ linePos' = linePos + 1
    /\ UNCHANGED << envVars, mainVars, diffInput, diffHunks, diffResult, dpc >>

\* parseDiff, line 337
ParseDiffReturn ==
    /\ dpc = "forEach"
    /\ linePos = Len(splitLines(diffInput))
    /\ diffResult' = cursor.lineNumbers
    /\ dpc' = "returned"
    /\ UNCHANGED << envVars, mainVars, diffInput, diffHunks, linePos, cursor >>

Next ==
    \/ CheckConfig
    \/ ValidateGitRepo
    \/ GetCommits
    \/ GetListOfFiles
    \/ GetTestCaseFiles
    \/ ProcessTestFile
    \/ Report

NextCommits == GetCommits

NextDiff == ParseDiffLine \/ ParseDiffReturn

\* a run of main
Spec == Init /\ [][Next]_vars

\* a call of getCommits
SpecCommits == InitCommits /\ [][NextCommits]_vars

\* a call of parseDiff
SpecDiff == InitDiff /\ [][NextDiff]_vars

(* ------------------------------ claims -------------------------------- *)

\* the new-file lines c, c+1, ..., c+adds-1 of every hunk, in order
RECURSIVE NewFileLines(_)
NewFileLines(hunks) ==
    IF hunks = << >> THEN << >>
    ELSE [k \in 1..Head(hunks).adds |-> Head(hunks).c + k - 1] \o NewFileLines(Tail(hunks))

\* C1: for a zero-context diff, parseDiff returns for every hunk
\* "@@ -a,b +c,d @@" exactly c, c+1, ..., c+d-1, also when deletion lines
\* precede the hunk's addition lines.
C1_AddedLinesAreNewFileLines ==
    (dpc = "returned" /\ diffHunks # << >>) => diffResult = NewFileLines(diffHunks)

IsHunkHeader(line) == \E c \in HunkStarts : line = HunkHeader(c)
HeaderStart(line) == CHOOSE c \in HunkStarts : line = HunkHeader(c)
IsAddition(line) == Len(line) >= 1 /\ line[1] = "+" /\ ~(Len(line) >= 3 /\ line[2] = "+" /\ line[3] = "+")
IsNoNewline(line) == Len(line) >= 1 /\ line[1] = "\\"
IsOtherAtAt(line) == Len(line) >= 2 /\ line[1] = "@" /\ line[2] = "@" /\ ~IsHunkHeader(line)

ExampleDiff == << HunkHeader(5), CtxLine, AddLine, AddLine >>

\* what C2 says of the results: the cursor starts at 0, the example yields
\* [6, 7], the empty diff yields the empty sequence
C2_Results ==
    /\ (dpc = "forEach" /\ linePos = 0) => cursor = [startLine |-> 0, lineNumbers |-> << >>]
    /\ (dpc = "returned" /\ diffInput = ExampleDiff) => diffResult = << 6, 7 >>
    /\ (dpc = "returned" /\ diffInput = EmptyText) => diffResult = << >>

\* C2 as stated: a hunk header sets the cursor to c; a line starting with "+"
\* but not "+++" records the cursor and then increments it; any other line not
\* starting with "\" increments the cursor without recording; a line starting
\* with "\" leaves the cursor unchanged.
C2_AsStated ==
    /\ [](C2_Results)
    /\ [][linePos' = linePos + 1 =>
            LET line == splitLines(diffInput)[linePos'] IN
            IF IsHunkHeader(line)
            THEN cursor' = [cursor EXCEPT !.startLine = HeaderStart(line)]
            ELSE IF IsAddition(line)
            THEN cursor' = [startLine |-> cursor.startLine + 1,
                            lineNumbers |-> Append(cursor.lineNumbers, cursor.startLine)]
            ELSE IF ~IsNoNewline(line)
            THEN cursor' = [cursor EXCEPT !.startLine = cursor.startLine + 1]
            ELSE cursor' = cursor]_vars

\* C2, amended: as stated, but a line that starts with "@@" and is no hunk
\* header leaves the cursor unchanged, like a line starting with "\".
C2_CursorMachine ==
    /\ [](C2_Results)
    /\ [][linePos' = linePos + 1 =>
            LET line == splitLines(diffInput)[linePos'] IN
            IF IsHunkHeader(line)
            THEN cursor' = [cursor EXCEPT !.startLine = HeaderStart(line)]
            ELSE IF IsAddition(line)
            THEN cursor' = [startLine |-> cursor.startLine + 1,
                            lineNumbers |-> Append(cursor.lineNumbers, cursor.startLine)]
            ELSE IF ~IsNoNewline(line) /\ ~IsOtherAtAt(line)
            THEN cursor' = [cursor EXCEPT !.startLine = cursor.startLine + 1]
            ELSE cursor' = cursor]_vars

C2_Witness ==
    /\ dpc = "returned"
    /\ diffInput = ExampleDiff
    /\ diffResult = << 6, 7 >>

NoDuplicates(s) == \A i, j \in DOMAIN s : s[i] = s[j] => i = j

InBlock(n, block) == block.start <= n /\ n <= block.end

\* the (file, test block) pairs of the completed turns with a changed line inside
UpdatedPairs ==
    { p \in UNION { { << i, k >> : k \in DOMAIN testCases[i] } : i \in 1..fileIdx } :
          \E n \in Range(updatedLines[p[1]]) : InBlock(n, testCases[p[1]][p[2]]) }

TotalsPrinted == \E n \in 0..Len(updatedTestCases) :
                     << "Updated/Added Test Cases", n >> \in Range(printed)

C4_EndToEnd ==
    ( /\ history = << Commit(JaneDoe, TRUE,
                             << FC(TestA, TextChange(<< Hunk(1, 0, 3) >>)) >>) >>
      /\ AUTHOR = JaneDoe
      /\ disk[TestA] = SourceA1
      /\ failed = { }
      /\ pc = "done" )
        => printed = << << "Total lines added", 3 >>, << "Updated/Added Test Cases", 1 >> >>

\* the sum of the numeric added-count fields of the numstat lines of a commit
CommitAdded(c) ==
    Sum([k \in DOMAIN c.changes |->
            IF c.changes[k].change.binary THEN 0 ELSE AddedCount(c.changes[k].change.hunks)])

ExpectedTotal(cs) == Sum([k \in DOMAIN cs |-> CommitAdded(history[IndexOf(history, cs[k])])])

\* C5: for any non-empty commit set the run reports the sum of the numeric
\* added-count fields over all numstat lines of all commits, whether or not a
\* changed file matches a test-file pattern; a non-numeric field counts 0.
C5_TotalIndependentOfFilter ==
    (pc = "done" /\ commits # << >> /\ failed = { })
        => << "Total lines added", ExpectedTotal(commits) >> \in Range(printed)

\* C6: with the repository path or the author missing, or without a .git
\* directory, the run ends with a nonzero status before any query is issued
\* and before any file is parsed.
C6_FatalConfiguration ==
    /\ (REPO_PATH = "" \/ AUTHOR = << >>) => pc \in { "main", "exit1" }
    /\ ~gitDir => pc \in { "main", "validateGitRepo", "exit1" }
    /\ pc = "exit1" => (REPO_PATH = "" \/ AUTHOR = << >> \/ ~gitDir)
    /\ pc \in { "main", "validateGitRepo", "exit1" } =>
           issued = { } /\ parsed = << >> /\ printed = << >>

C6_Witness ==
    /\ pc = "exit1"
    /\ REPO_PATH # "" /\ AUTHOR # << >> /\ ~gitDir

\* the commits whose query of a kind did not fail
ShowUnfailed ==
    SelectSeq(commits, LAMBDA c : ShowQuery(c) \notin failed /\ GitShowNameOnly(history, c).ok)
DiffUnfailed(file) ==
    SelectSeq(commits, LAMBDA c : DiffQuery(c, file) \notin failed /\ GitDiff(history, c, file).ok)
NumstatUnfailed ==
    SelectSeq(commits, LAMBDA c : NumstatQuery(c) \notin failed /\ GitShowNumstat(history, c).ok)

\* C7: a failing query gives the empty string for that call only and never
\* aborts the run: the failing commit contributes no file, no changed line and
\* no added line, and every other commit contributes what it contributes to a
\* run without the failing query.
C7_FailureIsNoContribution ==
    /\ pc \in { "getTestCaseFiles", "forEach", "threw" } \/ (pc = "done" /\ commits # << >>) =>
           files = getListOfFiles(ShowUnfailed, history, { })
    /\ \A i \in 1..fileIdx :
           updatedLines[i] =
               getTestCasesUpdatedLineNumbersByFile(
                   testCaseFiles[i], DiffUnfailed(testCaseFiles[i]), history, { })
    /\ pc = "done" /\ testCaseFiles # << >> =>
           totalLines = getTotalLinesByAuthor(NumstatUnfailed, history, { })
    /\ pc = "threw" => /\ DiskContent(parsed[Len(parsed)]).exists
                       /\ ~DiskContent(parsed[Len(parsed)]).parses
    /\ pc = "exit1" => issued = { }

C7_Witness ==
    /\ pc = "done"
    /\ \E c \in Range(commits) : NumstatQuery(c) \in failed
    /\ \E c \in Range(commits) : DiffQuery(c, TestA) \in issued /\ ~GitDiff(history, c, TestA).ok
    /\ totalLines > 0

\* C8: when the commit list is empty, no changed-file, diff or numstat query
\* is issued, no test file is processed, an empty outcome with zero totals is
\* reported, and the run ends normally.
C8_NoCommitsShortCircuit ==
    (LogQuery("log1") \in issued /\ commits = << >>) =>
        /\ pc = "done"
        /\ printed = << << "No commits found" >> >>
        /\ \A q \in issued : q[1] \notin { "show", "diff", "numstat" }
        /\ parsed = << >> /\ testCaseFiles = << >>
        /\ totalLines = 0 /\ updatedTestCases = << >>

C8_Witness ==
    /\ pc = "done"
    /\ commits = << >>
    /\ LogQuery("log1") \in issued
    /\ failed = { }

\* the commits of the window whose author name git matches against a pattern
Matched(pattern) ==
    { HashOf(i) : i \in { j \in DOMAIN history :
                              history[j].inWindow /\ includes(history[j].author, pattern) } }

FirstToken == split(AUTHOR, " ")[1]
LastToken == split(AUTHOR, " ")[Len(split(AUTHOR, " "))]
LastCommaFirst ==
    LastToken \o << ",", " " >> \o SubSeq(AUTHOR, 1, Len(AUTHOR) - Len(LastToken) - 1)

Strategy1 == IF LogQuery("log1") \in failed THEN { } ELSE Matched(AUTHOR)
Strategy2 ==
    IF LogQuery("log2") \in failed \/ Len(split(AUTHOR, " ")) < 2 THEN { }
    ELSE Matched(LastCommaFirst)
Strategy3 ==
    IF LogQuery("log3") \in failed THEN { }
    ELSE { h \in Matched(FirstToken) :
               LET a == toLowerCase(history[IndexOf(history, h)].author)
               IN  includes(a, toLowerCase(FirstToken)) /\ includes(a, toLowerCase(LastToken)) }

DoeJane == << "D", ",", " ", "J" >>

\* C9: getCommits returns a duplicate-free sequence, the union of the commits
\* matched by the name as given, by the name reordered "Last, First", and by
\* the first token alone with an author holding both tokens case-insensitively.
C9_UnionOfStrategies ==
    LogQuery("log1") \in issued =>
        /\ NoDuplicates(commits)
        /\ Range(commits) = Strategy1 \cup Strategy2 \cup Strategy3
        /\ (AUTHOR = JaneDoe /\ LogQuery("log2") \notin failed) =>
               \A i \in DOMAIN history :
                   (history[i].inWindow /\ history[i].author = DoeJane)
                       => HashOf(i) \in Range(commits)

C9_Witness ==
    /\ LogQuery("log1") \in issued
    /\ AUTHOR = JaneDoe
    /\ failed = { }
    /\ \E i, j \in DOMAIN history :
           /\ history[i].inWindow /\ history[i].author = DoeJane
           /\ HashOf(i) \in Range(commits)
           /\ history[j].inWindow /\ history[j].author = << "J", " ", "X" >>
           /\ HashOf(j) \notin Range(commits)

IsBroken(file) == DiskContent(file).exists /\ ~DiskContent(file).parses

\* C10: a parse failure in a test file ends the run: no later test file is
\* processed, no diff or numstat query follows, no count is reported; a test
\* file missing from the disk gives zero test cases and the run continues.
C10_ParseFailureIsFatal ==
    /\ \A i \in 1..fileIdx :
           /\ ~IsBroken(testCaseFiles[i])
           /\ ~DiskContent(testCaseFiles[i]).exists => testCases[i] = << >>
    /\ TotalsPrinted => \A i \in DOMAIN testCaseFiles : ~IsBroken(testCaseFiles[i])
    /\ pc # "threw" => Len(parsed) = fileIdx
    /\ pc = "threw" =>
           /\ IsBroken(testCaseFiles[fileIdx + 1])
           /\ parsed = SubSeq(testCaseFiles, 1, fileIdx + 1)
           /\ \A q \in issued :
                  /\ q[1] # "numstat"
                  /\ q[1] = "diff" => q[3] \in Range(SubSeq(testCaseFiles, 1, fileIdx))
           /\ printed = << >>

C10_Witness ==
    /\ pc = "threw"
    /\ fileIdx = 1
    /\ ~DiskContent(testCaseFiles[1]).exists
    /\ Len(testCaseFiles) = 2

====
